---- MODULE Spec2Model ----
(***************************************************************************)
(* A model of fairseq/modules/mpconv.py: the multi-kernel convolution      *)
(* block MPConvLayer, the encoder layer MPConvSentenceEncoderLayer and the *)
(* sentence encoder MPConvSentenceEncoder.                                 *)
(*                                                                         *)
(* Tensors are modelled with batch size 1 and integer elements.  A tensor  *)
(* that python code holds by reference lives in `heap` (a sequence of      *)
(* values, a reference is an index), so that `out = x` aliases and         *)
(* `out += ...` writes through the alias, while `a + b` allocates.         *)
(*                                                                         *)
(* Four entry points are specified, each with its own specification:       *)
(*   SpecConv     MPConvLayer.__init__ and MPConvLayer.forward             *)
(*   SpecLayer    MPConvSentenceEncoderLayer, called and forword() direct  *)
(*   SpecInit     MPConvSentenceEncoder.__init__ (modules, init, freezing) *)
(*   SpecForward  MPConvSentenceEncoder.forward, stage by stage            *)
(***************************************************************************)
EXTENDS Integers, Sequences, FiniteSets, TLC

VARIABLES
    \* ---- arguments and mode shared by MPConvLayer and the encoder layer ----
    kernel_range,
    use_bias,
    use_extra_residual,
    training,       \* nn.Module.training
    \* ---- MPConvLayer (SpecConv) ----
    cpc,            \* "new" | "built" | "returned"
    mods,           \* self.mods: sequence of Conv1d records
    bias,           \* self.bias (one channel), or None
    heap,           \* tensor storage: sequence of sequences of integers
    x_ref,          \* the reference the caller passed as input (0: none yet)
    x_in,           \* value of the caller's tensor when the call was made
    ret,            \* <<reference returned>>, or <<>> for None
    \* ---- MPConvSentenceEncoderLayer (SpecLayer) ----
    lpc,            \* "new" | "built" | "returned" | "raised"
    layer,          \* the constructed layer object, or None
    x_out,          \* the local x when forword reaches its last line, else <<>>
    drops,          \* the two dropout masks drawn by the call
    err,            \* the exception a call raised, or None
    \* ---- MPConvSentenceEncoder (SpecInit, SpecForward) ----
    epc,            \* position in __init__ / forward
    args,           \* the constructor's arguments
    enc,            \* the constructed encoder object, or None
    traceable,      \* the attribute self.traceable: <<>> when unset, else <<value>>
    tokens,         \* forward's token ids, one row
    last_state_only,
    is_tpu,
    padding_mask,   \* [present, at]: the mask, or absent after being discarded
    x,              \* forward's local x (the hidden state)
    x_before,       \* x on entry to the stage that ran last
    x_masked,       \* x of the pass on the same inputs that keeps its mask
    inner_states,
    layer_idx,      \* number of layers the iteration has visited
    skipped         \* number of layers the layer-drop iteration left out

tensorVars == <<heap, x_ref, x_in, ret, err>>
cfgVars == <<kernel_range, use_bias, use_extra_residual, training>>
convVars == <<cpc, mods, bias>>
layerVars == <<lpc, layer, x_out, drops>>
ctorVars == <<args, enc, traceable>>
passVars == <<tokens, last_state_only, is_tpu, padding_mask, x, x_before, x_masked,
              inner_states, layer_idx, skipped>>
encVars == <<epc, ctorVars, passVars>>
vars == <<tensorVars, cfgVars, convVars, layerVars, encVars>>

None == "None"

\* ------------------------------------------------------------ bounds
MaxKernelRange == 3
SeqLen == 2
MaxLayers == 2

\* element values of input tensors, convolution weights, trained biases
InVals == {-1, 1}
WeightVals == {1, 2}
BiasVals == {0, 1}

\* ------------------------------------------------------------ helpers
RECURSIVE SumTo(_, _)
SumTo(f, n) == IF n = 0 THEN 0 ELSE f[n] + SumTo(f, n - 1)

\* the sequence f[1], ..., f[n], built element by element
RECURSIVE Vec(_, _)
Vec(n, f) == IF n = 0 THEN <<>> ELSE Append(Vec(n - 1, f), f[n])

VecAdd(a, b) == Vec(Len(a), [t \in 1..Len(a) |-> a[t] + b[t]])

AddScalar(a, c) == Vec(Len(a), [t \in 1..Len(a) |-> a[t] + c])

Tensors(len) == [1..len -> InVals]

\* ------------------------------------------------------------ Conv1d
\* nn.Conv1d(channels, channels, i, 1, i // 2, 1, 1, False): positional
\* arguments kernel_size, stride, padding, dilation, groups, bias.
NewConv1d(i, w) ==
    [kernel_size |-> i, stride |-> 1, padding |-> i \div 2, dilation |-> 1,
     groups |-> 1, bias |-> FALSE, weight |-> [j \in 1..i |-> w]]

\* x zero-padded on both sides by m.padding, read at padded index q (1-based)
PaddedAt(m, inp, q) ==
    IF q - m.padding >= 1 /\ q - m.padding <= Len(inp) THEN inp[q - m.padding] ELSE 0

ConvOutLen(m, len) ==
    LET span == len + 2 * m.padding - m.dilation * (m.kernel_size - 1) - 1
    IN  IF span < 0 THEN 0 ELSE span \div m.stride + 1

\* the cross-correlation a Conv1d without bias computes on one channel
Conv1d(m, inp) ==
    Vec(ConvOutLen(m, Len(inp)),
        [t \in 1..ConvOutLen(m, Len(inp)) |->
            SumTo([j \in 1..m.kernel_size |->
                      m.weight[j] * PaddedAt(m, inp, (t - 1) * m.stride
                                                       + (j - 1) * m.dilation + 1)],
                  m.kernel_size)])

\* ------------------------------------------------------------ MPConvLayer.__init__
\* for i in range(kernel_range + 1): if i % 2 == 0: continue; append Conv1d
RECURSIVE BuildModsFrom(_, _, _)
BuildModsFrom(i, kr, ws) ==
    IF i >= kr + 1 THEN <<>>
    ELSE IF i % 2 = 0 THEN BuildModsFrom(i + 1, kr, ws)
    ELSE <<NewConv1d(i, ws[i])>> \o BuildModsFrom(i + 1, kr, ws)

RECURSIVE BuildModsExclusiveFrom(_, _, _)
BuildModsExclusiveFrom(i, kr, ws) ==
    IF i >= kr THEN <<>>
    ELSE IF i % 2 = 0 THEN BuildModsExclusiveFrom(i + 1, kr, ws)
    ELSE <<NewConv1d(i, ws[i])>> \o BuildModsExclusiveFrom(i + 1, kr, ws)

\* a plausible slip: range(kernel_range) instead of range(kernel_range + 1)
BuildModsExclusive(kr, ws) == BuildModsExclusiveFrom(0, kr, ws)

BuildMods(kr, ws) == BuildModsFrom(0, kr, ws)

\* the freshly initialised weight of each candidate width
InitWeights(kr) == [1..(IF kr > 0 THEN kr ELSE 0) -> WeightVals]

NewMPConvLayer(kr, ub, ws) ==
    [mods |-> BuildMods(kr, ws), use_bias |-> ub, bias |-> IF ub THEN 0 ELSE None]

\* ------------------------------------------------------------ MPConvLayer.forward
\* out = x; for conv_op in self.mods: out += conv_op(x)
\* `out` and `x` name the same tensor, so each += writes into x as well.
RECURSIVE Accumulate(_, _, _, _, _)
Accumulate(h, out, inp, ms, k) ==
    IF k > Len(ms) THEN h
    ELSE Accumulate([h EXCEPT ![out] = VecAdd(h[out], Conv1d(ms[k], h[inp]))],
                    out, inp, ms, k + 1)

\* returns the heap after the call and the reference returned
MPConvLayerForward(h, inp, blk) ==
    LET out == inp
        h1 == Accumulate(h, out, inp, blk.mods, 1)
    IN  IF blk.use_bias
        THEN [heap |-> Append(h1, AddScalar(h1[out], blk.bias)), ret |-> Len(h1) + 1]
        ELSE [heap |-> h1, ret |-> out]

\* ------------------------------------------------------------ collaborators
\* utils.get_activation_fn("relu"): elementwise, a new tensor
Relu(v) == Vec(Len(v), [t \in 1..Len(v) |-> IF v[t] > 0 THEN v[t] ELSE 0])

\* FairseqDropout: the identity unless training; when training each element
\* is zeroed or kept and rescaled by 1/(1-p), here with p = 1/2.
DropMasks(len) == [1..len -> {0, 1}]

\* the masks a dropout module can draw: all-keep unless training
Draws(len) ==
    IF training THEN DropMasks(len) ELSE {[t \in 1..len |-> 1]}

Dropout(v, train, keep) ==
    IF train THEN Vec(Len(v), [t \in 1..Len(v) |-> 2 * keep[t] * v[t]]) ELSE v

\* LayerNorm(dim) normalises the last dimension, which must have size dim.
LayerNormFits(dim, lastdim) == dim = lastdim

\* (v - mean(v)) / std(v) with unit weight and zero bias; the model keeps the
\* centring, scaled by the length to stay in the integers, and leaves out the
\* division by the standard deviation.
LayerNorm(v) == Vec(Len(v), [t \in 1..Len(v) |-> Len(v) * v[t] - SumTo(v, Len(v))])

\* ------------------------------------------------------------ MPConvSentenceEncoderLayer
\* __init__; the class body defines __init__ and forword
NewEncoderLayer(ch, kr, ub, xr, ws1, ws3) ==
    [channels |-> ch,
     use_extra_residual |-> xr,
     final_layer_norm |-> [dim |-> ch],
     fc1 |-> NewMPConvLayer(kr, ub, ws1),
     fc3 |-> NewMPConvLayer(kr, ub, ws3),
     methods |-> {"__init__", "forword"}]

\* The body of forword(x) on a one-channel (batch, channels, T) tensor held
\* at x.  Returns the heap afterwards, the local x at the end (<<>> if the
\* end is not reached), the value returned (<<>> is None), the exception
\* raised and the dropout masks drawn.
LayerForword(h, inp, lay, train, keep1, keep2) ==
    LET residual == inp
        r1 == MPConvLayerForward(h, inp, lay.fc1)
        x1 == Dropout(Relu(r1.heap[r1.ret]), train, keep1)
        h2 == Append(r1.heap, x1)
        r3 == MPConvLayerForward(h2, Len(h2), lay.fc3)
        x3 == Dropout(Relu(r3.heap[r3.ret]), train, keep2)
        x4 == IF lay.use_extra_residual THEN VecAdd(r3.heap[residual], x3) ELSE x3
    IN  IF LayerNormFits(lay.final_layer_norm.dim, Len(x4))
        THEN [heap |-> r3.heap, x |-> LayerNorm(x4), ret |-> <<>>, err |-> None,
              drops |-> <<keep1, keep2>>]
        ELSE [heap |-> r3.heap, x |-> <<>>, ret |-> <<>>, err |-> "RuntimeError",
              drops |-> <<keep1, keep2>>]

\* layer(x): nn.Module.__call__ dispatches to self.forward.  The class
\* defines forword, so the lookup finds nn.Module's unimplemented forward.
LayerCall(h, inp, lay, train, keep1, keep2) ==
    IF "forward" \in lay.methods
    THEN LayerForword(h, inp, lay, train, keep1, keep2)
    ELSE [heap |-> h, x |-> <<>>, ret |-> <<>>, err |-> "NotImplementedError",
          drops |-> <<>>]

\* ------------------------------------------------------------ idle parts
\* forward has not been entered: its locals do not exist
PassIdle ==
    /\ tokens = <<>>
    /\ last_state_only = FALSE
    /\ is_tpu = FALSE
    /\ padding_mask = [present |-> FALSE, at |-> <<>>]
    /\ x = <<>>
    /\ x_before = <<>>
    /\ x_masked = <<>>
    /\ inner_states = <<>>
    /\ layer_idx = 0
    /\ skipped = 0

\* Each specification drives one entry point; the other objects do not exist.
ConvIdle ==
    /\ cpc = "idle"
    /\ mods = <<>>
    /\ bias = None

LayerIdle ==
    /\ lpc = "idle"
    /\ layer = None
    /\ x_out = <<>>
    /\ drops = <<>>

EncoderIdle ==
    /\ epc = "idle"
    /\ args = None
    /\ enc = None
    /\ traceable = <<>>
    /\ PassIdle

\* no call made yet: no tensor allocated, nothing returned or raised
TensorsIdle ==
    /\ heap = <<>>
    /\ x_ref = 0
    /\ x_in = <<>>
    /\ ret = <<>>
    /\ err = None

\* ------------------------------------------------------------ SpecConv
InitConv ==
    /\ cpc = "new"
    /\ kernel_range \in -1..MaxKernelRange
    /\ use_bias \in BOOLEAN
    /\ mods = <<>>
    /\ bias = None
    /\ use_extra_residual = FALSE
    /\ training = FALSE
    /\ TensorsIdle
    /\ LayerIdle
    /\ EncoderIdle

ConstructConv ==
    /\ cpc = "new"
    /\ \E ws \in InitWeights(kernel_range) :
          LET l == NewMPConvLayer(kernel_range, use_bias, ws)
          IN  /\ mods' = l.mods
              /\ bias' = l.bias
    /\ cpc' = "built"
    /\ UNCHANGED <<cfgVars, tensorVars, layerVars, encVars>>

\* the bias is a registered parameter: training moves it away from zero
TrainBias ==
    /\ cpc = "built"
    /\ use_bias
    /\ \E b \in BiasVals : bias' = b
    /\ bias' # bias
    /\ UNCHANGED <<cpc, mods, cfgVars, tensorVars, layerVars, encVars>>

ForwardConv ==
    /\ cpc = "built"
    /\ \E len \in 1..SeqLen : \E v \in Tensors(len) :
          LET r == MPConvLayerForward(<<v>>, 1,
                       [mods |-> mods, use_bias |-> use_bias, bias |-> bias])
          IN  /\ x_in' = v
              /\ x_ref' = 1
              /\ heap' = r.heap
              /\ ret' = <<r.ret>>
    /\ cpc' = "returned"
    /\ UNCHANGED <<mods, bias, err, cfgVars, layerVars, encVars>>

NextConv == ConstructConv \/ TrainBias \/ ForwardConv

SpecConv == InitConv /\ [][NextConv]_vars

\* ------------------------------------------------------------ SpecLayer
InitLayer ==
    /\ lpc = "new"
    /\ kernel_range \in 0..MaxKernelRange
    /\ use_bias \in BOOLEAN
    /\ use_extra_residual \in BOOLEAN
    /\ training \in BOOLEAN
    /\ layer = None
    /\ x_out = <<>>
    /\ drops = <<>>
    /\ TensorsIdle
    /\ ConvIdle
    /\ EncoderIdle

ConstructLayer ==
    /\ lpc = "new"
    /\ \E w1 \in WeightVals, w3 \in WeightVals :
          layer' = NewEncoderLayer(1, kernel_range, use_bias, use_extra_residual,
                                   [i \in 1..kernel_range |-> w1],
                                   [i \in 1..kernel_range |-> w3])
    /\ lpc' = "built"
    /\ UNCHANGED <<tensorVars, cfgVars, convVars, x_out, drops, encVars>>

\* the caller's view after one invocation on the tensor v, with outcome r
Invoked(v, r) ==
    /\ x_in' = v
    /\ x_ref' = 1
    /\ drops' = r.drops
    /\ heap' = r.heap
    /\ x_out' = r.x
    /\ ret' = r.ret
    /\ err' = r.err
    /\ lpc' = IF r.err = None THEN "returned" ELSE "raised"
    /\ UNCHANGED <<cfgVars, convVars, layer, encVars>>

\* y = layer(x), as MPConvSentenceEncoder.forward calls it
CallLayer ==
    /\ lpc = "built"
    /\ \E len \in 1..SeqLen :
       \E v \in Tensors(len), k1 \in Draws(len), k3 \in Draws(len) :
          Invoked(v, LayerCall(<<v>>, 1, layer, training, k1, k3))

\* layer.forword(x), the method invoked by its own name
CallForword ==
    /\ lpc = "built"
    /\ \E len \in 1..SeqLen :
       \E v \in Tensors(len), k1 \in Draws(len), k3 \in Draws(len) :
          Invoked(v, LayerForword(<<v>>, 1, layer, training, k1, k3))

NextLayer == ConstructLayer \/ CallLayer \/ CallForword

SpecLayer == InitLayer /\ [][NextLayer]_vars

\* ------------------------------------------------------------ MPConvSentenceEncoder.__init__
\* A parameter is named by its owner module, the layer index (0 outside the
\* layer stack), the sub-module, the kernel's position (0 if none) and its name.
BlockParams(i, sub, blk) ==
    {<<"layers", i, sub, k, "weight">> : k \in 1..Len(blk.mods)}
        \cup (IF blk.use_bias THEN {<<"layers", i, sub, 0, "bias">>} ELSE {})

LayerParams(i, lay) ==
    BlockParams(i, "fc1", lay.fc1) \cup BlockParams(i, "fc3", lay.fc3)
        \cup {<<"layers", i, "final_layer_norm", 0, "weight">>,
              <<"layers", i, "final_layer_norm", 0, "bias">>}

\* nn.Embedding / PositionalEmbedding / nn.Linear / LayerNorm members; a member
\* that is None owns no parameter
EmbeddingParams(a) ==
    {<<"embed_tokens", 0, "Embedding", 0, "weight">>,
     <<"embed_proj", 0, "Linear", 0, "weight">>,
     <<"embed_proj", 0, "Linear", 0, "bias">>}
        \cup (IF a.num_segments > 0
              THEN {<<"segment_embeddings", 0, "Embedding", 0, "weight">>} ELSE {})
        \cup (IF a.use_position_embeddings
              THEN {<<"embed_positions", 0, "Embedding", 0, "weight">>} ELSE {})
        \cup (IF a.encoder_normalize_before
              THEN {<<"emb_layer_norm", 0, "LayerNorm", 0, "weight">>,
                    <<"emb_layer_norm", 0, "LayerNorm", 0, "bias">>} ELSE {})

\* build_mpconv_sentence_encoder_layer: use_bias is left at its default
BuildLayer(a) ==
    NewEncoderLayer(a.ffn_channel_dim, a.kernel_range, TRUE, a.encoder_extra_residual,
                    [i \in 1..a.kernel_range |-> 1], [i \in 1..a.kernel_range |-> 1])

\* init_bert_params, applied to every sub-module: Linear, Conv1d and
\* Embedding weights are redrawn, Linear biases zeroed; nothing else changes
BertInitialised(p) ==
    \/ p[3] \in {"Linear", "Embedding"}
    \/ p[1] = "layers" /\ p[3] \in {"fc1", "fc3"} /\ p[5] = "weight"

\* a slip that freezes the whole stack, whichever layer is named
FreezeAllModuleParams(g, owner, i) ==
    [p \in DOMAIN g |-> IF p[1] = owner THEN FALSE ELSE g[p]]

\* freeze_module_params(m) for the module that owns the parameters (owner, i)
FreezeModuleParams(g, owner, i) ==
    [p \in DOMAIN g |-> IF p[1] = owner /\ p[2] = i THEN FALSE ELSE g[p]]

FreezeEmbeddings(g) ==
    FreezeModuleParams(
        FreezeModuleParams(
            FreezeModuleParams(
                FreezeModuleParams(g, "embed_tokens", 0),
                "segment_embeddings", 0),
            "embed_positions", 0),
        "emb_layer_norm", 0)

\* for layer in range(n_trans_layers_to_freeze): freeze(self.layers[layer])
RECURSIVE FreezeLayers(_, _, _, _)
FreezeLayers(g, i, k, n) ==
    IF i >= k THEN [grad |-> g, err |-> None]
    ELSE IF i >= n THEN [grad |-> g, err |-> "IndexError"]
    ELSE FreezeLayers(FreezeModuleParams(g, "layers", i), i + 1, k, n)

\* the pre-normalisation member, built for embedding_dim
NewEmbLayerNorm(a) ==
    IF a.encoder_normalize_before
    THEN [present |-> TRUE, dim |-> a.embedding_dim]
    ELSE [present |-> FALSE, dim |-> 0]

NewEncoder(a) ==
    LET layers == [i \in 1..a.num_encoder_layers |-> BuildLayer(a)]
        params == EmbeddingParams(a)
                      \cup UNION {LayerParams(i - 1, layers[i]) : i \in 1..Len(layers)}
        g0 == [p \in params |-> TRUE]
        g1 == IF a.freeze_embeddings THEN FreezeEmbeddings(g0) ELSE g0
        fz == FreezeLayers(g1, 0, a.n_trans_layers_to_freeze, Len(layers))
    IN  [err |-> fz.err,
         padding_idx |-> a.padding_idx,
         embedding_dim |-> a.embedding_dim,
         embed_proj |-> [in_features |-> a.embedding_dim,
                         out_features |-> a.ffn_channel_dim],
         emb_layer_norm |-> NewEmbLayerNorm(a),
         layers_type |-> IF a.layerdrop_gt0 THEN "LayerDropModuleList" ELSE "ModuleList",
         layers |-> layers,
         bert_init |-> {p \in params : a.apply_bert_init /\ BertInitialised(p)},
         requires_grad |-> fz.grad]

\* the widths of the model's channel dimensions, and the pad ids
Dims == {1, 2}
PadIds == {0, 1}
Vocab == {0, 1}

\* arguments left at the defaults the signature gives them
DefaultArgs ==
    [encoder_extra_residual |-> TRUE, num_segments |-> 2,
     use_position_embeddings |-> TRUE, apply_bert_init |-> FALSE,
     freeze_embeddings |-> FALSE, n_trans_layers_to_freeze |-> 0]

Override(base, over) ==
    [f \in DOMAIN base \cup DOMAIN over |->
        IF f \in DOMAIN over THEN over[f] ELSE base[f]]

\* ------------------------------------------------------------ SpecInit
InitCtor ==
    /\ epc = "new"
    /\ args \in {Override(DefaultArgs, a) : a \in
          [padding_idx : {1},
           kernel_range : {0, MaxKernelRange},
           num_encoder_layers : 0..MaxLayers,
           embedding_dim : {2},
           ffn_channel_dim : {2},
           layerdrop_gt0 : BOOLEAN,
           num_segments : {0, 2},
           use_position_embeddings : BOOLEAN,
           encoder_normalize_before : BOOLEAN,
           apply_bert_init : BOOLEAN,
           freeze_embeddings : BOOLEAN,
           n_trans_layers_to_freeze : 0..MaxLayers]}
    /\ enc = None
    /\ traceable = <<>>
    /\ training = FALSE
    /\ PassIdle
    /\ kernel_range = 0
    /\ use_bias = FALSE
    /\ use_extra_residual = FALSE
    /\ TensorsIdle
    /\ ConvIdle
    /\ LayerIdle

\* MPConvSentenceEncoder(...): __init__ assigns no attribute `traceable`
Construct ==
    /\ epc = "new"
    /\ LET e == NewEncoder(args)
       IN  /\ enc' = e
           /\ err' = e.err
           /\ epc' = IF e.err = None THEN "ready" ELSE "raised"
    /\ training' = TRUE
    /\ traceable' = <<>>
    /\ UNCHANGED <<heap, x_ref, x_in, ret, kernel_range, use_bias, use_extra_residual,
                   convVars, layerVars, args, passVars>>

NextCtor == Construct

SpecInit == InitCtor /\ [][NextCtor]_vars

\* ------------------------------------------------------------ MPConvSentenceEncoder.forward
\* Before the transpose the hidden state is x[t][c] (position, channel);
\* after it, x[c][t].

\* padding_mask = tokens.eq(self.padding_idx)
ComputeMask(toks, pad) == Vec(Len(toks), [t \in 1..Len(toks) |-> toks[t] = pad])

MaskAny(mask) == \E t \in 1..Len(mask) : mask[t]

\* a slip that forgets the test for padding in the batch
DiscardWithoutLooking(trc, tpu, mask) == ~trc /\ ~tpu

\* if not self.traceable and not is_tpu and not padding_mask.any()
DiscardMask(trc, tpu, mask) == ~trc /\ ~tpu /\ ~MaskAny(mask)

\* self.embed_tokens(tokens): row tok of the table, the padding row zero
EmbedTokens(tok, pad, dim) ==
    Vec(dim, [c \in 1..dim |-> IF tok = pad THEN 0 ELSE tok + c])

\* self.embed_positions(tokens): padding positions get the zero row, the
\* others are numbered from the left counting non-padding tokens only
PositionOf(toks, t, pad) == Cardinality({u \in 1..t : toks[u] # pad})

EmbedPositions(toks, t, pad, dim) ==
    Vec(dim, [c \in 1..dim |-> IF toks[t] = pad THEN 0 ELSE PositionOf(toks, t, pad)])

\* lines 300-312 with embed_scale, segment_labels, positions and
\* token_embeddings at their defaults (None)
EmbedCompose(e, toks) ==
    Vec(Len(toks), [t \in 1..Len(toks) |->
        LET tok == EmbedTokens(toks[t], e.padding_idx, e.embedding_dim)
        IN  IF e.embed_positions
            THEN VecAdd(tok, EmbedPositions(toks, t, e.padding_idx, e.embedding_dim))
            ELSE tok])

\* self.embed_proj: y[f] = sum_e W[f][e] * v[e] + b[f], with W[f][e] = f, b[f] = f
Linear(lin, v) ==
    Vec(lin.out_features,
        [f \in 1..lin.out_features |-> f * SumTo(v, lin.in_features) + f])

\* a slip that multiplies by the mask instead of its complement
KeepOnlyPadded(v, mask) ==
    Vec(Len(v), [t \in 1..Len(v) |->
        Vec(Len(v[t]), [c \in 1..Len(v[t]) |-> v[t][c] * (IF mask[t] THEN 1 ELSE 0)])])

\* x * (1 - padding_mask.unsqueeze(-1).type_as(x))
ZeroPadded(v, mask) ==
    Vec(Len(v), [t \in 1..Len(v) |->
        Vec(Len(v[t]),
            [c \in 1..Len(v[t]) |-> v[t][c] * (1 - (IF mask[t] THEN 1 ELSE 0))])])

\* x.transpose(2, 1)
Transpose(v) ==
    IF Len(v) = 0 THEN <<>>
    ELSE Vec(Len(v[1]), [c \in 1..Len(v[1]) |->
             Vec(Len(v), [t \in 1..Len(v) |-> v[t][c]])])

\* a slip that starts the collection empty whatever was asked
CollectNothing(lso, v) == <<>>

\* inner_states = []; if not last_state_only: inner_states.append(x)
CollectInitial(lso, v) == IF ~lso THEN <<v>> ELSE <<>>

\* if last_state_only: inner_states = [x]
Assembled(lso, states, v) == IF lso THEN <<v>> ELSE states

AllKept(v) == Vec(Len(v), [t \in 1..Len(v) |-> 1])

\* ------------------------------------------------------------ SpecForward
InitForward ==
    /\ epc = "ready"
    /\ args \in {Override(DefaultArgs, a) : a \in
          [padding_idx : PadIds,
           kernel_range : {MaxKernelRange},
           num_encoder_layers : 0..MaxLayers,
           embedding_dim : Dims,
           ffn_channel_dim : Dims,
           layerdrop_gt0 : BOOLEAN,
           encoder_normalize_before : BOOLEAN]}
    /\ enc = NewEncoder(args)
    /\ traceable = <<>>
    /\ training \in BOOLEAN
    /\ PassIdle
    /\ kernel_range = 0
    /\ use_bias = FALSE
    /\ use_extra_residual = FALSE
    /\ TensorsIdle
    /\ ConvIdle
    /\ LayerIdle

Frame == UNCHANGED <<heap, x_ref, x_in, cfgVars, convVars, layerVars, args, enc>>

\* client code assigns the attribute forward reads (encoder.traceable = b)
SetTraceable ==
    /\ epc = "ready"
    /\ traceable = <<>>
    /\ \E b \in BOOLEAN : traceable' = <<b>>
    /\ UNCHANGED <<epc, ret, err, passVars>>
    /\ Frame

\* lines 293-298: the mask, and whether it is kept
ForwardMask ==
    /\ epc = "ready"
    /\ \E toks \in [1..SeqLen -> Vocab], lso \in BOOLEAN, tpu \in BOOLEAN :
          /\ tokens' = toks
          /\ last_state_only' = lso
          /\ is_tpu' = tpu
          /\ IF traceable = <<>>
             THEN /\ err' = "AttributeError"
                  /\ epc' = "raised"
                  /\ UNCHANGED padding_mask
             ELSE LET mask == ComputeMask(toks, enc.padding_idx)
                  IN  /\ padding_mask' =
                             IF DiscardMask(traceable[1], tpu, mask)
                             THEN [present |-> FALSE, at |-> <<>>]
                             ELSE [present |-> TRUE, at |-> mask]
                      /\ epc' = "masked"
                      /\ UNCHANGED err
    /\ UNCHANGED <<ret, traceable, x, x_before, x_masked, inner_states, layer_idx, skipped>>
    /\ Frame

Stage(from, to, v) ==
    /\ epc = from
    /\ epc' = to
    /\ x' = v
    /\ x_before' = x
    /\ x_masked' = v
    /\ UNCHANGED <<ret, err, traceable, tokens, last_state_only, is_tpu, padding_mask,
                   inner_states, layer_idx, skipped>>
    /\ Frame

\* lines 300-313: embeddings and the projection to ffn_channel_dim
ForwardEmbed ==
    /\ epc = "masked"
    /\ LET e == [padding_idx |-> enc.padding_idx, embedding_dim |-> enc.embedding_dim,
                 embed_positions |-> args.use_position_embeddings]
           emb == EmbedCompose(e, tokens)
       IN  Stage("masked", "projected",
                 Vec(Len(emb), [t \in 1..Len(emb) |-> Linear(enc.embed_proj, emb[t])]))

\* lines 317-318: the optional pre-normalisation
ForwardPreNorm ==
    /\ epc = "projected"
    /\ IF enc.emb_layer_norm.present
             /\ \E t \in 1..Len(x) : ~LayerNormFits(enc.emb_layer_norm.dim, Len(x[t]))
       THEN /\ epc' = "raised"
            /\ err' = "RuntimeError"
            /\ UNCHANGED <<ret, traceable, passVars>>
            /\ Frame
       ELSE Stage("projected", "normed",
                  IF enc.emb_layer_norm.present
                  THEN Vec(Len(x), [t \in 1..Len(x) |-> LayerNorm(x[t])])
                  ELSE x)

\* line 320: self.dropout_module draws one mask element per element of x
ForwardDropout ==
    /\ epc = "normed"
    /\ \E keep \in [1..Len(x) -> Draws(args.ffn_channel_dim)] :
          Stage("normed", "dropped",
                Vec(Len(x), [t \in 1..Len(x) |-> Dropout(x[t], training, keep[t])]))

\* lines 322-324: zero the hidden state where the mask is set
ForwardZero ==
    /\ epc = "dropped"
    /\ epc' = "zeroed"
    /\ x' = IF padding_mask.present THEN ZeroPadded(x, padding_mask.at) ELSE x
    /\ x_before' = x
    /\ x_masked' = ZeroPadded(x_masked, ComputeMask(tokens, enc.padding_idx))
    /\ UNCHANGED <<ret, err, traceable, tokens, last_state_only, is_tpu, padding_mask,
                   inner_states, layer_idx, skipped>>
    /\ Frame

\* lines 326-331: the transpose, and the collection's first element
ForwardTranspose ==
    /\ epc = "zeroed"
    /\ epc' = "layers"
    /\ x' = Transpose(x)
    /\ x_before' = x
    /\ x_masked' = Transpose(x_masked)
    /\ inner_states' = CollectInitial(last_state_only, x')
    /\ UNCHANGED <<ret, err, traceable, tokens, last_state_only, is_tpu, padding_mask,
                   layer_idx, skipped>>
    /\ Frame

\* LayerDropModuleList.__iter__ leaves a layer out (training only)
SkipLayer ==
    /\ epc = "layers"
    /\ layer_idx < Len(enc.layers)
    /\ enc.layers_type = "LayerDropModuleList"
    /\ training
    /\ layer_idx' = layer_idx + 1
    /\ skipped' = skipped + 1
    /\ UNCHANGED <<epc, ret, err, traceable, tokens, last_state_only, is_tpu,
                   padding_mask, x, x_before, x_masked, inner_states>>
    /\ Frame

\* lines 333-336: x, _ = layer(x); if not last_state_only: append
ApplyLayer ==
    /\ epc = "layers"
    /\ layer_idx < Len(enc.layers)
    /\ layer_idx' = layer_idx + 1
    /\ LET r == LayerCall(<<x>>, 1, enc.layers[layer_idx + 1], training,
                          AllKept(x), AllKept(x))
           rm == LayerCall(<<x_masked>>, 1, enc.layers[layer_idx + 1], training,
                           AllKept(x), AllKept(x))
       IN  IF r.err # None
           THEN /\ err' = r.err
                /\ epc' = "raised"
                /\ UNCHANGED <<x, x_before, x_masked, inner_states>>
           ELSE IF Len(r.ret) # 2
           THEN /\ err' = "TypeError"
                /\ epc' = "raised"
                /\ UNCHANGED <<x, x_before, x_masked, inner_states>>
           ELSE /\ x' = r.heap[r.ret[1]]
                /\ x_before' = x
                /\ x_masked' = rm.heap[rm.ret[1]]
                /\ inner_states' = IF ~last_state_only
                                   THEN Append(inner_states, x')
                                   ELSE inner_states
                /\ UNCHANGED <<epc, err>>
    /\ UNCHANGED <<ret, traceable, tokens, last_state_only, is_tpu, padding_mask, skipped>>
    /\ Frame

\* lines 341-347: the collection is assembled; no return statement follows
ForwardAssemble ==
    /\ epc = "layers"
    /\ layer_idx = Len(enc.layers)
    /\ epc' = "returned"
    /\ inner_states' = Assembled(last_state_only, inner_states, x)
    /\ ret' = <<>>
    /\ UNCHANGED <<err, traceable, tokens, last_state_only, is_tpu, padding_mask,
                   x, x_before, x_masked, layer_idx, skipped>>
    /\ Frame

NextForward ==
    \/ SetTraceable
    \/ ForwardMask
    \/ ForwardEmbed
    \/ ForwardPreNorm
    \/ ForwardDropout
    \/ ForwardZero
    \/ ForwardTranspose
    \/ SkipLayer
    \/ ApplyLayer
    \/ ForwardAssemble

SpecForward == InitForward /\ [][NextForward]_vars

\* ============================================================ claims
\* What a block computes when every convolution reads the same input v:
\* v + sum over k of conv_k(v), plus the bias once when it is enabled.
RECURSIVE SumOfConvs(_, _, _)
SumOfConvs(ms, v, k) ==
    IF k = 0 THEN Vec(Len(v), [t \in 1..Len(v) |-> 0])
    ELSE VecAdd(SumOfConvs(ms, v, k - 1), Conv1d(ms[k], v))

BlockValue(blk, v) ==
    LET acc == VecAdd(v, SumOfConvs(blk.mods, v, Len(blk.mods)))
    IN  IF blk.use_bias THEN AddScalar(acc, blk.bias) ELSE acc

\* C1: MPConvLayer.forward returns input + the sum over all configured
\* kernels of conv_k(input), each convolution evaluated on the original
\* input, plus the bias once when use_bias is enabled.
C1_ForwardSumsConvsOfInput ==
    cpc = "returned" =>
        heap[ret[1]] = BlockValue([mods |-> mods, use_bias |-> use_bias, bias |-> bias],
                                  x_in)

\* C2: the convolutions constructed are exactly the odd widths w with
\* 1 <= w <= kernel_range, in increasing order, each with stride 1,
\* dilation 1 and padding floor(w/2), and each maps a sequence to a
\* sequence of the same length.
C2_OddWidthsKeepLength ==
    cpc \in {"built", "returned"} =>
        /\ Len(mods) = Cardinality({w \in 1..kernel_range : w % 2 = 1})
        /\ \A k \in 1..Len(mods) :
              /\ mods[k].kernel_size = 2 * k - 1
              /\ mods[k].kernel_size <= kernel_range
              /\ mods[k].stride = 1
              /\ mods[k].dilation = 1
              /\ mods[k].padding = mods[k].kernel_size \div 2
              /\ \A len \in 1..SeqLen : \A v \in Tensors(len) :
                    Len(Conv1d(mods[k], v)) = len

\* a block with at least two convolutions has been constructed
C2_Witness == cpc = "built" /\ Len(mods) >= 2

\* C3: after MPConvLayer.forward returns, the tensor the caller passed as
\* input holds the values it held before the call.
C3_InputUnchanged ==
    cpc = "returned" => heap[x_ref] = x_in

\* C4: calling the layer on x returns
\* norm(r + dropout(act(block2(dropout(act(block1(x))))))), r being the
\* value of x on entry when use_extra_residual is enabled and absent
\* otherwise.
C4_CallReturnsNormalized ==
    lpc \in {"returned", "raised"} =>
        /\ err = None
        /\ Len(ret) = 1
        /\ LET y1 == Dropout(Relu(BlockValue(layer.fc1, x_in)), training, drops[1])
               y3 == Dropout(Relu(BlockValue(layer.fc3, y1)), training, drops[2])
           IN  heap[ret[1]] =
                   LayerNorm(IF layer.use_extra_residual THEN VecAdd(x_in, y3) ELSE y3)

C6_CollectionHoldsEveryLayerOutput ==
    (/\ ~last_state_only
     /\ \/ epc \in {"layers", "returned"}
        \/ epc = "raised" /\ err \in {"NotImplementedError", "TypeError"})
    => /\ Len(inner_states) = 1 + (layer_idx - skipped)
       /\ inner_states[Len(inner_states)] = x

\* C7: for a batch with at least one padding token, right after the
\* padding-zeroing stage the hidden state is zero in every channel at each
\* padded position and equals its value before the stage elsewhere.
C7_PaddedPositionsZeroed ==
    (epc = "zeroed" /\ \E t \in 1..Len(tokens) : tokens[t] = args.padding_idx)
    => \A t \in 1..Len(x) : \A c \in 1..Len(x[t]) :
          x[t][c] = IF tokens[t] = args.padding_idx THEN 0 ELSE x_before[t][c]

\* the stage zeroed a non-zero padded position and kept a non-zero other one
C7_Witness ==
    /\ epc = "zeroed"
    /\ \E t \in 1..Len(tokens) : \E c \in 1..Len(x_before[t]) :
          tokens[t] = args.padding_idx /\ x_before[t][c] # 0
    /\ \E t \in 1..Len(tokens) : \E c \in 1..Len(x_before[t]) :
          tokens[t] # args.padding_idx /\ x_before[t][c] # 0

\* C8: after construction with n_trans_layers_to_freeze = k, every
\* parameter of layers 0..k-1 is non-trainable and every parameter of the
\* later layers trainable, whatever freeze_embeddings and apply_bert_init.
C8_FirstLayersFrozen ==
    epc = "ready" =>
        /\ \A i \in 1..Len(enc.layers) :
              LayerParams(i - 1, enc.layers[i]) \subseteq DOMAIN enc.requires_grad
        /\ \A p \in DOMAIN enc.requires_grad :
              p[1] = "layers" =>
                  (enc.requires_grad[p] <=> p[2] >= args.n_trans_layers_to_freeze)

\* the first of two layers was frozen, with both other options switched on
C8_Witness ==
    /\ epc = "ready"
    /\ args.num_encoder_layers = 2
    /\ args.n_trans_layers_to_freeze = 1
    /\ args.freeze_embeddings
    /\ args.apply_bert_init
    /\ args.kernel_range > 0

PastMaskStage ==
    \/ epc \in {"masked", "projected", "normed", "dropped", "zeroed", "layers",
                "returned"}
    \/ epc = "raised" /\ err # "AttributeError"

\* C9: a pass whose mask was discarded has, at every stage, the hidden
\* state of the pass on the same inputs that keeps its mask, and the mask
\* is discarded only when no token equals padding_idx.
C9_DiscardedMaskChangesNothing ==
    (PastMaskStage /\ ~padding_mask.present) =>
        /\ x = x_masked
        /\ \A t \in 1..Len(tokens) : tokens[t] # args.padding_idx

\* a pass without its mask went through the zeroing stage with non-zero values
C9_Witness ==
    /\ epc = "zeroed"
    /\ ~padding_mask.present
    /\ \E t \in 1..Len(x) : \E c \in 1..Len(x[t]) : x[t][c] # 0

\* C10: the pre-normalisation is built for the channel width of the tensor
\* it is applied to, so the stage raises no dimension-mismatch error for
\* any embedding_dim and ffn_channel_dim.
C10_PreNormNeverRaises ==
    ~(epc = "raised" /\ err = "RuntimeError")

====
